---- MODULE Spec2Model ----
(***************************************************************************)
(* Model of the authoritative game server, src/server/serverEngine.js      *)
(* (class ServerEngine): the tick loop startGame, the input buffer drain,  *)
(* the collisionStart handler with its scoring rules, win detection, the   *)
(* target-score decay timer and the snapshot broadcast.                    *)
(*                                                                         *)
(* JavaScript runs one macrotask at a time: a startGame invocation (with   *)
(* its whole while loop), a socket message handler and a setInterval       *)
(* callback never interleave.  pc records where the scheduler is:          *)
(*   "idle"    between macrotasks (socket handlers and timers may run),    *)
(*   "loop"    inside startGame, at the test of the while loop,            *)
(*   "collide" inside Engine.update, in the for loop of onCollisionStart.  *)
(* The physics engine is opaque: Engine.update reports any batch of        *)
(* collisionStart pairs over the bodies present in the world.  The batch   *)
(* is revealed as the for loop walks it: handled is the part of            *)
(* event.pairs already iterated, and the next pair is any other contact of *)
(* the bodies that were in the world when the update began.                *)
(***************************************************************************)
EXTENDS Integers, Sequences, FiniteSets, TLC

\* ---------------------------------------------------------------- bounds
\* wall-clock values Date.now() ranges over are 1..MaxTime
MaxTime == 4
\* number of newChip commands accepted over a run
MaxChips == 2
\* largest collisionStart batch one Engine.update reports
MaxBatch == 2
\* number of firings of the decay timer over a run
MaxDecay == 2
\* connections accepted over a run of the game with chips
MaxSessions == 2
\* connections accepted over a run of the game without chips
MaxConnections == 5
\* connections accepted over a run of the game under fairness
MaxLiveSessions == 1

\* ------------------------------------------------------- program constants
\* TARGET_SCORE and TIMESTEP are imported from shared/constants/game; the
\* values here are scaled to the clock and score ranges of the model.
TARGET_SCORE == 1
TIMESTEP == 2
\* the initial owner of a peg ("Pegs initialize with owner set to null")
NULL == -1
\* number of pegs _createPegs puts on the board (fixed by ROWS and COLS of
\* shared/constants/canvas; scaled like the constants above)
NumPegs == 1

\* the newChip payloads clients send, as <<ownerId, id>>: two players, an
\* ownerId outside [0,4) and a two-digit chip id (the buffer validates
\* nothing)
Commands == {<<0, 0>>, <<1, 10>>, <<11, 0>>}

PlayerIds == {0, 1, 2, 3}

VARIABLES
  frame,                \* this.frame
  inputBuffer,          \* this.inputBuffer: FIFO of Input {id, ownerId}
  chips,                \* this.chips: combinedId -> chip
  world,                \* chips whose body is in this.engine.world
  nextBody,             \* number of chip bodies created so far
  pegs,                 \* this.pegs[i].ownerId, i \in 1..NumPegs (peg id i-1)
  pegIds,               \* this.pegs[i].id
  score,                \* this.score: key -> JS number
  targetScore,          \* this.targetScore
  targetScoreInterval,  \* this.targetScoreInterval
  timers,               \* number of live setInterval timers
  winner,               \* this.winner
  nextTimestep,         \* this.nextTimestep (0: not set yet, falsy)
  knownPlayers,         \* this.knownPlayers: the sockets, in connection order
  playerId,             \* the counter playerId of registerSocketEvents
  now,                  \* Date.now()
  pc,                   \* position of the scheduler
  handled,              \* the pairs of event.pairs already iterated
  emitted,              \* what the macrotask that ran last has emitted
  ticks,                \* history: ticks executed to completion
  decayFirings,         \* history: firings of the decay timer
  despawned,            \* history: bodies of chips that touched the ground
  burst,                \* history: ticks run in this startGame invocation
  last,                 \* history: the contact handled last in the last batch
  connected,            \* history: the sockets whose client is still there
  assigned,             \* history: the playerId sent to each connection
  startTime,            \* history: Date.now() at the first call of startGame
  underflow             \* history: shift was called on an empty buffer

vars == <<frame, inputBuffer, chips, world, nextBody, pegs, pegIds, score,
          targetScore, targetScoreInterval, timers, winner, nextTimestep,
          knownPlayers, playerId, now, pc, handled, emitted, ticks,
          decayFirings, despawned, burst, last, connected, assigned,
          startTime, underflow>>

\* ------------------------------------------------------------ JS numbers
\* A score value is a JS number: an integer or NaN.
Num(n) == [nan |-> FALSE, val |-> n]
NaN == [nan |-> TRUE, val |-> 0]
\* v + d in JS arithmetic
Plus(v, d) == IF v.nan THEN NaN ELSE Num(v.val + d)
\* v >= t in JS (false when v is NaN)
GreaterEq(v, t) == ~v.nan /\ v.val >= t
\* truthiness of an ownerId: null and 0 are falsy
Truthy(o) == o # NULL /\ o # 0

\* String(n) for a non-negative integer: its decimal digits
RECURSIVE String(_)
String(n) == IF n < 10 THEN <<n>> ELSE String(n \div 10) \o <<n % 10>>

\* String(ownerId) + String(id)
CombinedId(ownerId, id) == String(ownerId) \o String(id)

\* ------------------------------------------------------------- ScoreModel
initializeScore == [k \in PlayerIds |-> Num(0)]

\* this.score[key] op= 1: an absent key reads undefined, undefined +- 1 is NaN
ScoreAssign(s, key, d) ==
  [k \in DOMAIN s \cup {key} |->
     IF k = key THEN (IF key \in DOMAIN s THEN Plus(s[key], d) ELSE NaN)
     ELSE s[k]]

incrementScore(s, chipOwner) == ScoreAssign(s, chipOwner, 1)

decrementScore(s, formerPegOwner) == ScoreAssign(s, formerPegOwner, -1)

\* variant: the former owner also loses a point when its own chip touches
\* the peg again
updateScore_DecrementAlways(s, formerPegOwner, chipOwner) ==
  LET s1 == IF chipOwner # formerPegOwner THEN incrementScore(s, chipOwner)
            ELSE s
  IN  IF Truthy(formerPegOwner) THEN decrementScore(s1, formerPegOwner)
      ELSE s1

updateScore(s, formerPegOwner, chipOwner) ==
  IF chipOwner # formerPegOwner
  THEN LET s1 == incrementScore(s, chipOwner)
       IN  IF Truthy(formerPegOwner) THEN decrementScore(s1, formerPegOwner)
           ELSE s1
  ELSE s

\* variant: a score has to exceed the target
winningPlayer_Strict(s, t) == \E k \in DOMAIN s : ~s[k].nan /\ s[k].val > t

\* scores.some(score => score >= this.targetScore)
winningPlayer(s, t) == \E k \in DOMAIN s : GreaterEq(s[k], t)

\* stopGame: clearInterval(this.loop); this.loop is never assigned, so the
\* call clears nothing: the timers and the scheduler are left as they are.
stopGame(n) == n

\* ------------------------------------------------------------------ World
Chip(body, ownerId, id) == [body |-> body, ownerId |-> ownerId, id |-> id]

\* delete obj[key]
Delete(obj, key) == [k \in DOMAIN obj \ {key} |-> obj[k]]

\* obj[key] = value
Put(obj, key, value) ==
  [k \in DOMAIN obj \cup {key} |-> IF k = key THEN value ELSE obj[k]]

\* ------------------------------------------------------------ InputBuffer
\* insert(command): append at the back of the FIFO
insert(buf, input) == Append(buf, input)

isEmpty(buf) == buf = <<>>

\* shift(): pop the front; ok is FALSE for a call on an empty buffer
shift(buf) ==
  IF buf = <<>> THEN [ok |-> FALSE, rest |-> buf]
  ELSE [ok |-> TRUE, input |-> Head(buf), rest |-> Tail(buf)]

\* variant: an if in place of the while, one input is taken per tick
processInputBuffer_One(buf, cs, w, nb) ==
  IF isEmpty(buf)
  THEN [buffer |-> buf, chips |-> cs, world |-> w, nextBody |-> nb,
        underflow |-> FALSE]
  ELSE LET input == shift(buf).input
           chip == Chip(nb + 1, input.ownerId, input.id)
       IN  [buffer |-> shift(buf).rest,
            chips |-> Put(cs, CombinedId(input.ownerId, input.id), chip),
            world |-> w \cup {chip}, nextBody |-> nb + 1,
            underflow |-> FALSE]

\* processInputBuffer: while the buffer is not empty, shift an input, create
\* its chip, add the body to the world and register the chip under its
\* combined id; underflow tells whether shift met an empty buffer
RECURSIVE processInputBuffer(_, _, _, _)
processInputBuffer(buf, cs, w, nb) ==
  IF isEmpty(buf)
  THEN [buffer |-> buf, chips |-> cs, world |-> w, nextBody |-> nb,
        underflow |-> FALSE]
  ELSE LET s == shift(buf)
           input == s.input
           chip == Chip(nb + 1, input.ownerId, input.id)
           r == processInputBuffer(s.rest,
                  Put(cs, CombinedId(input.ownerId, input.id), chip),
                  w \cup {chip}, nb + 1)
       IN  [r EXCEPT !.underflow = @ \/ ~s.ok]

\* ------------------------------------------------------------- collisions
PegPair(p, c) == [label |-> "peg", peg |-> p, chip |-> c]
GroundPair(c) == [label |-> "ground", peg |-> 0, chip |-> c]

\* the contacts Engine.update may report over the bodies in the world
PairSet(w) == {PegPair(p, c) : p \in 1..NumPegs, c \in w}
                \cup {GroundPair(c) : c \in w}

\* the contacts the for loop may meet next: no pair starts twice in one
\* update, and a chip removed earlier in the batch was in the world when
\* the update began
NextPairs(w, done) == PairSet(w \cup {p.chip : p \in done}) \ done

\* variant: the score is updated although a winner is declared
pairScore_NoLatch(pair, s, pg, won) ==
  IF pair.label = "peg"
  THEN updateScore(s, pg[pair.peg], pair.chip.ownerId)
  ELSE s

\* onCollisionStart, score part of one pair (lines 93-95)
pairScore(pair, s, pg, won) ==
  IF pair.label = "peg" /\ ~won
  THEN updateScore(s, pg[pair.peg], pair.chip.ownerId)
  ELSE s

\* variant: the pegs are frozen with the scores once a winner is declared
pairPegs_UntilWin(pair, pg) ==
  IF pair.label = "peg" /\ ~winner
  THEN [pg EXCEPT ![pair.peg] = pair.chip.ownerId]
  ELSE pg

\* onCollisionStart, peg part of one pair (lines 97-99)
pairPegs(pair, pg) ==
  IF pair.label = "peg" THEN [pg EXCEPT ![pair.peg] = pair.chip.ownerId]
  ELSE pg

\* onCollisionStart, ground part of one pair (lines 101-107)
pairWorld(pair, w) ==
  IF pair.label = "ground" THEN w \ {pair.chip} ELSE w

\* variant: the body is removed but the map entry is kept
pairChips_KeepEntry(pair, cs) == cs

pairChips(pair, cs) ==
  IF pair.label = "ground"
  THEN Delete(cs, CombinedId(pair.chip.ownerId, pair.chip.id))
  ELSE cs

\* --------------------------------------------------------------- snapshot
generateSnapshot(cs, pg, s, won, t) ==
  [chips |-> {cs[k] : k \in DOMAIN cs}, pegs |-> pg, score |-> s,
   winner |-> won, targetScore |-> t]

\* variant: the first known player is left out of the fan-out
broadcastSnapshot_SkipFirst(snapshot, kp, f) ==
  [type |-> "snapshot", to |-> IF kp = <<>> THEN kp ELSE Tail(kp),
   frame |-> f, chips |-> snapshot.chips, pegs |-> snapshot.pegs,
   score |-> snapshot.score, winner |-> snapshot.winner,
   targetScore |-> snapshot.targetScore]

\* broadcastSnapshot: one SNAPSHOT message { frame, encodedSnapshot, score,
\* targetScore } per socket of knownPlayers, in list order; the encoded
\* payload is carried as its chips, pegs and winner fields
broadcastSnapshot(snapshot, kp, f) ==
  [type |-> "snapshot", to |-> kp, frame |-> f, chips |-> snapshot.chips,
   pegs |-> snapshot.pegs, score |-> snapshot.score,
   winner |-> snapshot.winner, targetScore |-> snapshot.targetScore]

\* a macrotask that has emitted nothing
NoMessage == [type |-> "none"]

NoContact == [label |-> "none", peg |-> 0, former |-> NULL,
              chipOwner |-> NULL, won |-> FALSE]

\* ------------------------------------------------------------------- Init
\* constructor and init()
Init ==
  /\ frame = 0
  /\ inputBuffer = <<>>
  /\ chips = <<>>
  /\ world = {}
  /\ nextBody = 0
  /\ pegs = [p \in 1..NumPegs |-> NULL]
  /\ pegIds = [p \in 1..NumPegs |-> p - 1]
  /\ score = initializeScore
  /\ targetScore = TARGET_SCORE
  /\ targetScoreInterval = FALSE
  /\ timers = 0
  /\ winner = FALSE
  /\ nextTimestep = 0
  /\ knownPlayers = <<>>
  /\ playerId = 0
  /\ now = 1
  /\ pc = "idle"
  /\ handled = {}
  /\ emitted = NoMessage
  /\ ticks = 0
  /\ decayFirings = 0
  /\ despawned = {}
  /\ burst = 0
  /\ last = NoContact
  /\ connected = {}
  /\ assigned = <<>>
  /\ startTime = 0
  /\ underflow = FALSE

\* ---------------------------------------------------------------- actions
\* wall-clock time passes; the clock is read at the entry of startGame, at
\* the while test and by the ping handler, so it is advanced between
\* macrotasks and before a test.  The clock starts with the first call of
\* startGame (Date.now() is 1 then).
ClockAdvance ==
  /\ pc # "collide"
  /\ nextTimestep # 0
  /\ now < MaxTime
  /\ now' = now + 1
  /\ UNCHANGED <<frame, inputBuffer, chips, world, nextBody, pegs, pegIds, score,
                 targetScore, targetScoreInterval, timers, winner,
                 nextTimestep, knownPlayers, playerId, pc, handled, emitted,
                 ticks, decayFirings, despawned, burst, last, connected,
                 assigned, startTime, underflow>>

\* variant: the id is taken from the number of clients still there
establishedPlayerId_Live(n) == Cardinality(connected) % 4

\* the playerId of CONNECTION_ESTABLISHED: playerId % 4
establishedPlayerId(n) == n % 4

\* variant: accepting a connection initializes the score again
Connection_NewScore(limit) ==
  /\ pc = "idle"
  /\ playerId < limit
  /\ LET socket == playerId + 1
     IN  /\ knownPlayers' = Append(knownPlayers, socket)
         /\ emitted' = [type |-> "connectionEstablished", to |-> socket,
                        playerId |-> establishedPlayerId(playerId)]
         /\ connected' = connected \cup {socket}
  /\ assigned' = Append(assigned, establishedPlayerId(playerId))
  /\ playerId' = playerId + 1
  /\ score' = initializeScore
  /\ UNCHANGED <<frame, inputBuffer, chips, world, nextBody, pegs, pegIds,
                 targetScore, targetScoreInterval, timers, winner,
                 nextTimestep, now, pc, handled, ticks, decayFirings,
                 despawned, burst, last, startTime, underflow>>

\* io.on(CONNECTION): the socket is pushed on knownPlayers, is sent
\* CONNECTION_ESTABLISHED { playerId: playerId % 4 } and gets its handlers;
\* limit caps the connections accepted over a run
Connection(limit) ==
  /\ pc = "idle"
  /\ playerId < limit
  /\ LET socket == playerId + 1
     IN  /\ knownPlayers' = Append(knownPlayers, socket)
         /\ emitted' = [type |-> "connectionEstablished", to |-> socket,
                        playerId |-> establishedPlayerId(playerId)]
         /\ connected' = connected \cup {socket}
  /\ assigned' = Append(assigned, establishedPlayerId(playerId))
  /\ playerId' = playerId + 1
  /\ UNCHANGED <<frame, inputBuffer, chips, world, nextBody, pegs, pegIds, score,
                 targetScore, targetScoreInterval, timers, winner,
                 nextTimestep, now, pc, handled, ticks, decayFirings,
                 despawned, burst, last, startTime, underflow>>

\* a client goes away: the server registers no handler for it, so nothing
\* of the server's state changes and nothing is emitted
Disconnect(socket) ==
  /\ pc = "idle"
  /\ socket \in connected
  /\ connected' = connected \ {socket}
  /\ emitted' = NoMessage
  /\ UNCHANGED <<frame, inputBuffer, chips, world, nextBody, pegs, pegIds, score,
                 targetScore, targetScoreInterval, timers, winner,
                 nextTimestep, knownPlayers, playerId, now, pc, handled,
                 ticks, decayFirings, despawned, burst, last,
                 assigned, startTime, underflow>>

\* one of the clients still there goes away
Disconnection == \E socket \in connected : Disconnect(socket)

\* socket.on(NEW_CHIP): this.inputBuffer.insert(new Input(chipInfo))
NewChip(ownerId, id) ==
  /\ pc = "idle"
  /\ connected # {}
  /\ nextBody + Len(inputBuffer) < MaxChips
  /\ inputBuffer' = insert(inputBuffer, [ownerId |-> ownerId, id |-> id])
  /\ emitted' = NoMessage
  /\ UNCHANGED <<frame, chips, world, nextBody, pegs, pegIds, score, targetScore,
                 targetScoreInterval, timers, winner, nextTimestep,
                 knownPlayers, playerId, now, pc, handled, ticks,
                 decayFirings, despawned, burst, last, connected, assigned,
                 startTime, underflow>>

\* socket.on(PING_MESSAGE): emit PONG_MESSAGE { serverTime: Date.now() }
Ping ==
  /\ pc = "idle"
  /\ connected # {}
  /\ emitted' = [type |-> "pong", serverTime |-> now]
  /\ UNCHANGED <<frame, inputBuffer, chips, world, nextBody, pegs, pegIds, score,
                 targetScore, targetScoreInterval, timers, winner,
                 nextTimestep, knownPlayers, playerId, now, pc, handled,
                 ticks, decayFirings, despawned, burst, last, connected,
                 assigned, startTime, underflow>>

\* socket.on(REQUEST_SERVER_FRAME): emit SERVER_FRAME { frame: this.frame }
RequestServerFrame ==
  /\ pc = "idle"
  /\ connected # {}
  /\ emitted' = [type |-> "serverFrame", frame |-> frame]
  /\ UNCHANGED <<frame, inputBuffer, chips, world, nextBody, pegs, pegIds, score,
                 targetScore, targetScoreInterval, timers, winner,
                 nextTimestep, knownPlayers, playerId, now, pc, handled,
                 ticks, decayFirings, despawned, burst, last, connected,
                 assigned, startTime, underflow>>

\* variant: the decay stops at a floor of 1
targetScoreDecay_Floor(t) == IF t > 1 THEN t - 1 ELSE t

\* this.targetScore -= 1
targetScoreDecay(t) == t - 1

\* the setInterval callback of reduceTargetScoreInterval
DecayFire ==
  /\ pc = "idle"
  /\ timers > 0
  /\ decayFirings < MaxDecay
  /\ targetScore' = targetScoreDecay(targetScore)
  /\ decayFirings' = decayFirings + 1
  /\ emitted' = NoMessage
  /\ UNCHANGED <<frame, inputBuffer, chips, world, nextBody, pegs, pegIds, score,
                 targetScoreInterval, timers, winner, nextTimestep,
                 knownPlayers, playerId, now, pc, handled, ticks, despawned,
                 burst, last, connected, assigned, startTime, underflow>>

\* startGame is entered (first call, or the setImmediate callback)
StartGame ==
  /\ pc = "idle"
  /\ nextTimestep' = IF nextTimestep # 0 THEN nextTimestep ELSE now
  /\ startTime' = IF nextTimestep # 0 THEN startTime ELSE now
  /\ pc' = "loop"
  /\ burst' = 0
  /\ emitted' = NoMessage
  /\ UNCHANGED <<frame, inputBuffer, chips, world, nextBody, pegs, pegIds, score,
                 targetScore, targetScoreInterval, timers, winner,
                 knownPlayers, playerId, now, handled, ticks, decayFirings,
                 despawned, last, connected, assigned, underflow>>

\* variant: the frame is counted twice in a pass
nextFrame_Twice(f) == f + 2

\* this.frame++
nextFrame(f) == f + 1

\* variant: the loop gives up while a tick is still owed
whileTest_Late(n, t) == n > t + TIMESTEP

\* the test of the while loop: Date.now() > this.nextTimestep
whileTest(n, t) == n > t

\* one pass of the while loop up to Engine.update (lines 176-182): the frame
\* is counted, the buffer drained and the engine starts its update
TickStep ==
  /\ pc = "loop"
  /\ whileTest(now, nextTimestep)
  /\ frame' = nextFrame(frame)
  /\ LET r == IF ~isEmpty(inputBuffer)
              THEN processInputBuffer(inputBuffer, chips, world, nextBody)
              ELSE [buffer |-> inputBuffer, chips |-> chips, world |-> world,
                    nextBody |-> nextBody, underflow |-> FALSE]
     IN  /\ inputBuffer' = r.buffer
         /\ chips' = r.chips
         /\ world' = r.world
         /\ nextBody' = r.nextBody
         /\ underflow' = (underflow \/ r.underflow)
  /\ pc' = "collide"
  /\ last' = NoContact
  /\ UNCHANGED <<pegs, pegIds, score, targetScore, targetScoreInterval, timers,
                 winner, nextTimestep, knownPlayers, playerId, now, handled,
                 emitted, ticks, decayFirings, despawned, burst, connected,
                 assigned, startTime>>

\* one iteration of the for loop of onCollisionStart (lines 88-108)
CollisionPair(pair) ==
  /\ pc = "collide"
  /\ Cardinality(handled) < MaxBatch
  /\ pair \in NextPairs(world, handled)
  /\ score' = pairScore(pair, score, pegs, winner)
  /\ pegs' = pairPegs(pair, pegs)
  /\ world' = pairWorld(pair, world)
  /\ chips' = pairChips(pair, chips)
  /\ despawned' = IF pair.label = "ground"
                  THEN despawned \cup {pair.chip.body} ELSE despawned
  /\ last' = [label |-> pair.label, peg |-> pair.peg,
              former |-> IF pair.label = "peg" THEN pegs[pair.peg] ELSE NULL,
              chipOwner |-> pair.chip.ownerId, won |-> winner]
  /\ handled' = handled \cup {pair}
  /\ UNCHANGED <<frame, inputBuffer, nextBody, pegIds, targetScore,
                 targetScoreInterval, timers, winner, nextTimestep,
                 knownPlayers, playerId, now, pc, emitted, ticks,
                 decayFirings, burst, connected, assigned, startTime,
                 underflow>>

\* the for loop of onCollisionStart meets its next pair
OnCollisionStart ==
  \E pair \in NextPairs(world, handled) : CollisionPair(pair)

\* variant: the flag is not set, so every pass starts another timer
reduceTargetScoreInterval_NoFlag(flag, n) == [flag |-> flag, timers |-> n + 1]

\* reduceTargetScoreInterval: set the flag and start the interval timer
reduceTargetScoreInterval(flag, n) == [flag |-> TRUE, timers |-> n + 1]

\* the rest of the pass (lines 184-192), once the batch is exhausted: win
\* check, start of the decay timer, snapshot broadcast, next deadline
TickFinish ==
  /\ pc = "collide"
  /\ LET won == IF ~winner /\ winningPlayer(score, targetScore)
                THEN TRUE ELSE winner
         n == IF ~winner /\ winningPlayer(score, targetScore)
              THEN stopGame(timers) ELSE timers
         r == IF ~targetScoreInterval
              THEN reduceTargetScoreInterval(targetScoreInterval, n)
              ELSE [flag |-> targetScoreInterval, timers |-> n]
     IN  /\ winner' = won
         /\ targetScoreInterval' = r.flag
         /\ timers' = r.timers
         /\ emitted' = broadcastSnapshot(
                         generateSnapshot(chips, pegs, score, won,
                                          targetScore),
                         knownPlayers, frame)
  /\ nextTimestep' = nextTimestep + TIMESTEP
  /\ handled' = {}
  /\ ticks' = ticks + 1
  /\ burst' = burst + 1
  /\ pc' = "loop"
  /\ UNCHANGED <<frame, inputBuffer, chips, world, nextBody, pegs, pegIds, score,
                 targetScore, knownPlayers, playerId, now, decayFirings,
                 despawned, last, connected, assigned, startTime, underflow>>

\* the while test fails: setImmediate(this.startGame.bind(this))
Yield ==
  /\ pc = "loop"
  /\ ~whileTest(now, nextTimestep)
  /\ pc' = "idle"
  /\ last' = NoContact
  /\ UNCHANGED <<frame, inputBuffer, chips, world, nextBody, pegs, pegIds, score,
                 targetScore, targetScoreInterval, timers, winner,
                 nextTimestep, knownPlayers, playerId, now, handled, emitted,
                 ticks, decayFirings, despawned, burst, connected, assigned,
                 startTime, underflow>>

\* the server with clients that connect, send chips and ask for the frame
\* and the time
Next ==
  \/ ClockAdvance
  \/ Connection(MaxSessions)
  \/ \E c \in Commands : NewChip(c[1], c[2])
  \/ Ping
  \/ RequestServerFrame
  \/ DecayFire
  \/ StartGame
  \/ TickStep
  \/ OnCollisionStart
  \/ TickFinish
  \/ Yield

Spec == Init /\ [][Next]_vars

\* the server with clients that come and go and send no chip
NextSessions ==
  \/ ClockAdvance
  \/ Connection(MaxConnections)
  \/ Disconnection
  \/ Ping
  \/ RequestServerFrame
  \/ DecayFire
  \/ StartGame
  \/ TickStep
  \/ TickFinish
  \/ Yield

SpecSessions == Init /\ [][NextSessions]_vars

\* the last deadline a tick can still meet before the clock runs out: the
\* tick of deadline d needs a clock value after d
LastDeadline ==
  startTime + ((MaxTime - 1 - startTime) \div TIMESTEP) * TIMESTEP

\* the clock of a run in which the decay timer keeps its period: the period
\* elapses however short the range of the clock is, so the clock stays at or
\* before the last deadline until the firings have brought targetScore down
\* to 0 or the match is won
ClockAdvanceTimed ==
  /\ winner \/ targetScore <= 0 \/ now < LastDeadline
  /\ ClockAdvance

\* the server with clients that connect and send chips, under a clock that
\* waits for the decay timer
NextLive ==
  \/ ClockAdvanceTimed
  \/ Connection(MaxLiveSessions)
  \/ \E c \in Commands : NewChip(c[1], c[2])
  \/ DecayFire
  \/ StartGame
  \/ TickStep
  \/ OnCollisionStart
  \/ TickFinish
  \/ Yield

\* fairness: the event loop runs the setImmediate callback (StartGame) and
\* every pass of the while loop it owes, time passes, and the timers phase
\* of the event loop runs the decay callback whenever it is due between
\* macrotasks
SpecLive ==
  /\ Init /\ [][NextLive]_vars
  /\ WF_vars(ClockAdvanceTimed)
  /\ WF_vars(StartGame)
  /\ WF_vars(TickStep)
  /\ WF_vars(TickFinish)
  /\ WF_vars(Yield)
  /\ SF_vars(DecayFire)

TypeOK ==
  /\ frame \in Nat
  /\ pc \in {"idle", "loop", "collide"}
  /\ winner \in BOOLEAN
  /\ timers \in Nat

\* ----------------------------------------------------------------- claims
\* sum of the four players' scores
ScoreSum(s) == s[0].val + s[1].val + s[2].val + s[3].val

\* C1: a peg-chip contact handled while no winner is declared, peg owned by
\* player A, chip owned by player B # A: score[B] goes up by 1, score[A] goes
\* down by 1 and the sum is unchanged; peg unowned: score[B] goes up by 1,
\* no other score changes and the sum goes up by 1.
C1_OwnershipTransfer ==
  [][\A pair \in handled' \ handled :
     (pair.label = "peg" /\ ~winner
        /\ pair.chip.ownerId \in PlayerIds
        /\ pair.chip.ownerId # pegs[pair.peg])
     => LET A == pegs[pair.peg]
            B == pair.chip.ownerId
        IN  /\ A \in PlayerIds =>
                 /\ score'[B] = Plus(score[B], 1)
                 /\ score'[A] = Plus(score[A], -1)
                 /\ \A k \in PlayerIds \ {A, B} : score'[k] = score[k]
                 /\ ScoreSum(score') = ScoreSum(score)
            /\ A = NULL =>
                 /\ score'[B] = Plus(score[B], 1)
                 /\ \A k \in PlayerIds \ {B} : score'[k] = score[k]
                 /\ ScoreSum(score') = ScoreSum(score) + 1]_vars

\* C2: once the winner flag is true it stays true, and from then on no step
\* (in particular no collision) changes any player's score.
C2_WinLatch == [][winner => (winner' /\ score' = score)]_vars

\* C2 witness: a peg-chip contact between different owners was handled
\* after the winner was declared
C2_Witness ==
  /\ winner
  /\ last.label = "peg" /\ last.won /\ last.former # last.chipOwner

\* C3: once detectWinner has latched the winner flag and called stop, no
\* further tick runs: the frame counter does not change, no pass of the
\* loop starts and no further snapshot is broadcast.
C3_StopHalts ==
  [][winner => (frame' = frame /\ ticks' = ticks /\ pc' # "collide"
                  /\ (emitted' # emitted => emitted'.type # "snapshot"))]_vars

\* C4: after stop has been called on the win, the decay timer never fires
\* again: targetScore keeps the value it had.
C4_StopCancelsDecay == [][winner => targetScore' = targetScore]_vars

\* the (ownerId, id) pairs of the commands are pairwise distinct
DistinctCommands(buf) ==
  \A i, j \in DOMAIN buf :
     i # j => <<buf[i].ownerId, buf[i].id>> # <<buf[j].ownerId, buf[j].id>>

\* C5: a drain of commands with pairwise distinct (ownerId, id) into a world
\* with no chips leaves as many chips in the chip map as there were
\* commands, each under its own combined key.
C5_SpawnOnDrain ==
  [][(pc = "loop" /\ pc' = "collide" /\ world = {} /\ DOMAIN chips = {}
        /\ DistinctCommands(inputBuffer))
     => /\ Cardinality(DOMAIN chips') = Len(inputBuffer)
        /\ Cardinality(world') = Len(inputBuffer)
        /\ \A i \in DOMAIN inputBuffer :
             LET key == CombinedId(inputBuffer[i].ownerId, inputBuffer[i].id)
             IN  /\ key \in DOMAIN chips'
                 /\ chips'[key].ownerId = inputBuffer[i].ownerId
                 /\ chips'[key].id = inputBuffer[i].id]_vars

\* C6: the frame counter goes up by exactly 1 in each pass of the loop and
\* changes nowhere else, so between passes it equals the number of ticks
\* executed, also in a burst; a SERVER_FRAME reply carries that number.
C6_FrameCounter ==
  /\ [](pc # "collide" => frame = ticks)
  /\ [](pc = "collide" => frame = ticks + 1)
  /\ [](emitted.type = "serverFrame" => emitted.frame = ticks)
  /\ [][\/ frame' = frame
        \/ frame' = frame + 1 /\ pc = "loop" /\ pc' = "collide"]_vars

\* C6 witness: a reply sent after a burst of two passes in one invocation
C6_Witness ==
  /\ pc = "idle" /\ burst >= 2
  /\ emitted.type = "serverFrame" /\ emitted.frame = frame /\ frame >= 2

\* C7: the score map has exactly the keys 0,1,2,3, each mapped to an
\* integer, whatever ownerId the newChip commands carried.
C7_ScoreShape ==
  /\ DOMAIN score = PlayerIds
  /\ \A k \in DOMAIN score : ~score[k].nan

\* C8: no two chips whose bodies are in the physics world share the
\* combined key (ownerId, id).
C8_UniqueLiveKeys ==
  \A c1, c2 \in world :
     c1 # c2 => <<c1.ownerId, c1.id>> # <<c2.ownerId, c2.id>>

\* C9: the decay timer is started once, in the first executed tick, and
\* never again; targetScore is TARGET_SCORE minus the number of firings
\* while no winner is declared, and changes by -1 per firing only.
C9_DecayTimer ==
  /\ [](timers = IF ticks >= 1 THEN 1 ELSE 0)
  /\ [](targetScoreInterval = (ticks >= 1))
  /\ [](~winner => targetScore = TARGET_SCORE - decayFirings)
  /\ [][\/ targetScore' = targetScore /\ decayFirings' = decayFirings
        \/ /\ targetScore' = targetScore - 1
           /\ decayFirings' = decayFirings + 1
           /\ pc = "idle" /\ pc' = "idle"]_vars

\* C9 witness: two firings and two ticks, no winner yet
C9_Witness ==
  ~winner /\ ticks >= 2 /\ decayFirings >= 2 /\ targetScore = TARGET_SCORE - 2

\* C10: a chip that touched the ground is, from the handling of the contact
\* on, neither in the physics world nor in the chip map, winner or not, and
\* is in no snapshot built in that tick or later; a ground contact whose key
\* is absent from the chip map leaves the map as it is.
C10_Despawn ==
  /\ [](\A b \in despawned :
          /\ \A c \in world : c.body # b
          /\ \A k \in DOMAIN chips : chips[k].body # b
          /\ (pc # "collide" /\ emitted.type = "snapshot")
               => \A c \in emitted.chips : c.body # b)
  /\ [][\A pair \in handled' \ handled :
          (pair.label = "ground"
             /\ CombinedId(pair.chip.ownerId, pair.chip.id) \notin DOMAIN chips)
          => chips' = chips]_vars

\* C10 witness: the snapshot of a tick in which a chip touched the ground
\* after the winner was declared
C10_Witness ==
  /\ pc = "loop" /\ emitted.type = "snapshot" /\ emitted.frame = frame
  /\ last.label = "ground" /\ last.won

\* C11: every executed tick emits one SNAPSHOT message to each session, in
\* the order of the list, carrying the frame counter of that tick and the
\* score and targetScore of that tick; snapshots are emitted by ticks only,
\* the frames of successive ticks are consecutive, and no session ever
\* leaves the list, so a session is sent every frame from its connection
\* on, once each and in increasing order.
C11_FanOut ==
  /\ [][ticks' = ticks + 1
        => /\ emitted'.type = "snapshot"
           /\ emitted'.frame = frame /\ emitted'.frame = ticks'
           /\ emitted'.score = score /\ emitted'.targetScore = targetScore
           /\ emitted'.to = knownPlayers
           /\ \A s \in connected :
                Cardinality({i \in DOMAIN emitted'.to : emitted'.to[i] = s})
                  = 1]_vars
  /\ [][(emitted'.type = "snapshot" /\ emitted' # emitted)
        => ticks' = ticks + 1]_vars
  /\ [][ticks' = ticks \/ ticks' = ticks + 1]_vars
  /\ [][/\ Len(knownPlayers') >= Len(knownPlayers)
        /\ SubSeq(knownPlayers', 1, Len(knownPlayers)) = knownPlayers]_vars

\* C11 witness: the snapshot of the second tick, sent to two sessions, with
\* a score that a contact has raised
C11_Witness ==
  /\ pc = "loop" /\ emitted.type = "snapshot" /\ emitted.frame >= 2
  /\ emitted.to = <<1, 2>> /\ connected = {1, 2}
  /\ \E k \in PlayerIds : emitted.score[k] = Num(1)

\* C12: the k-th accepted connection (k = 0, 1, 2, ...) is sent
\* CONNECTION_ESTABLISHED with playerId = k mod 4, whatever clients left in
\* between: the first four connections get 0, 1, 2, 3 and connection k + 4
\* gets the id of connection k.
C12_PlayerIds ==
  /\ \A k \in 0..(Len(assigned) - 1) : assigned[k + 1] = k % 4
  /\ \A j, k \in 0..(Len(assigned) - 1) :
       /\ (j < 4 /\ k < 4 /\ j # k) => assigned[j + 1] # assigned[k + 1]
       /\ k = j + 4 => assigned[k + 1] = assigned[j + 1]
  /\ Len(assigned) = Len(knownPlayers)
  /\ emitted.type = "connectionEstablished"
       => /\ emitted.to = knownPlayers[Len(knownPlayers)]
          /\ emitted.playerId = (Len(knownPlayers) - 1) % 4

\* C12 witness: the fifth connection is answered with id 0 after the
\* clients of the first and the third connection have left
C12_Witness ==
  /\ Len(assigned) = 5 /\ connected = {2, 4, 5}
  /\ emitted.type = "connectionEstablished" /\ emitted.to = 5
  /\ emitted.playerId = 0

\* C13 as stated: a tick executes whenever now >= nextTick, each executed
\* tick advances nextTick by exactly TIMESTEP, nextTick is startTime +
\* frame * TIMESTEP between ticks, and the loop yields only when the clock
\* is strictly before nextTick.
C13_CatchUpInclusive ==
  /\ [][(pc = "loop" /\ now >= nextTimestep) => pc' # "idle"]_vars
  /\ [][(pc = "loop" /\ pc' = "idle") => now < nextTimestep]_vars
  /\ [][ticks' = ticks + 1 => nextTimestep' = nextTimestep + TIMESTEP]_vars
  /\ []((pc # "collide" /\ nextTimestep # 0)
          => nextTimestep = startTime + frame * TIMESTEP)

\* C13, amended: a tick executes whenever the clock is strictly after
\* nextTick and only then, each executed tick advances nextTick by exactly
\* TIMESTEP, nextTick is startTime + frame * TIMESTEP between ticks, and the
\* loop yields only when the clock is at or before nextTick; so every tick
\* whose deadline the clock has passed is executed before the loop yields,
\* however far the clock jumped, and no tick runs before its deadline has
\* passed.
C13_CatchUp ==
  /\ [][(pc = "loop" /\ now > nextTimestep) => pc' # "idle"]_vars
  /\ [][(pc = "loop" /\ pc' = "idle") => now <= nextTimestep]_vars
  /\ [][(pc = "loop" /\ pc' = "collide") => now > nextTimestep]_vars
  /\ [][ticks' = ticks + 1 => nextTimestep' = nextTimestep + TIMESTEP]_vars
  /\ [][nextTimestep' # nextTimestep
          => (ticks' = ticks + 1 \/ (nextTimestep = 0 /\ pc = "idle"))]_vars
  /\ []((pc # "collide" /\ nextTimestep # 0)
          => nextTimestep = startTime + frame * TIMESTEP)
  /\ [][(pc = "loop" /\ pc' = "idle")
          => /\ now <= startTime + frame * TIMESTEP
             /\ frame >= 1 => now > startTime + (frame - 1) * TIMESTEP]_vars

\* C13 witness: the loop has yielded after a burst of two ticks, with the
\* clock strictly before the next deadline
C13_Witness ==
  /\ pc = "idle" /\ burst = 2 /\ frame = 2 /\ now < nextTimestep
  /\ now > nextTimestep - TIMESTEP

\* the chips a drain of buf creates when nb bodies exist: the i-th command
\* gets body nb + i
Spawned(buf, nb) ==
  {Chip(nb + i, buf[i].ownerId, buf[i].id) : i \in DOMAIN buf}

\* C14: every inserted command is appended to the buffer and stays there, in
\* insertion order, until the drain of the next tick; the drain takes every
\* command exactly once and creates exactly one chip body for each, in
\* buffer order, and leaves the buffer empty; the buffer changes in no other
\* way, and shift is never called on an empty buffer.
C14_NoInputLost ==
  /\ [][(pc = "loop" /\ pc' = "collide")
        => /\ inputBuffer' = <<>>
           /\ nextBody' = nextBody + Len(inputBuffer)
           /\ world' = world \cup Spawned(inputBuffer, nextBody)
           /\ Cardinality(world') = Cardinality(world) + Len(inputBuffer)]_vars
  /\ [][inputBuffer' # inputBuffer
        => \/ pc = "loop" /\ pc' = "collide"
           \/ /\ pc = "idle" /\ pc' = "idle"
              /\ \E c \in Commands :
                   inputBuffer' = Append(inputBuffer,
                                         [ownerId |-> c[1], id |-> c[2]])
              /\ world' = world /\ nextBody' = nextBody]_vars
  /\ [][(world' \ world # {} \/ nextBody' # nextBody)
        => (pc = "loop" /\ pc' = "collide")]_vars
  /\ [](pc = "collide" => inputBuffer = <<>>)
  /\ [](~underflow)

\* C14 witness: the first tick has drained two commands inserted while two
\* sessions were connected
C14_Witness ==
  /\ pc = "collide" /\ frame = 1 /\ nextBody = 2 /\ Cardinality(world) = 2
  /\ inputBuffer = <<>> /\ handled = {} /\ connected = {1, 2}

\* C15: every handled peg-chip contact leaves the peg owned by the touching
\* chip's owner, whether or not the owner changes and whether or not a
\* winner is declared, and leaves the other pegs alone; nothing but a
\* peg-chip contact changes a peg's owner, so after a batch with several
\* contacts on one peg the peg is owned by the chip of the last of them.
C15_PegFollowsChip ==
  /\ [][\A pair \in handled' \ handled :
          pair.label = "peg"
          => /\ pegs'[pair.peg] = pair.chip.ownerId
             /\ \A q \in DOMAIN pegs \ {pair.peg} : pegs'[q] = pegs[q]]_vars
  /\ [][pegs' # pegs
          => \E pair \in handled' \ handled : pair.label = "peg"]_vars
  /\ [](last.label = "peg" => pegs[last.peg] = last.chipOwner)

\* C15 witness: after the win, two chips of different owners touched the
\* same peg in one batch and the peg is owned by the second one's owner
C15_Witness ==
  /\ winner /\ last.label = "peg" /\ last.won
  /\ Cardinality({p \in handled : p.label = "peg" /\ p.peg = last.peg}) = 2
  /\ last.former # NULL /\ last.former # last.chipOwner
  /\ pegs[last.peg] = last.chipOwner

\* C16: under fairness of the tick loop and of the decay timer, whatever
\* chips the clients send and whatever contacts the engine reports (none at
\* all included), the winner flag eventually becomes true.
C16_MatchFinishes == <>winner

\* C16 witness: a match won without any chip: the decay brought targetScore
\* down to the scores
C16_Witness ==
  /\ winner /\ nextBody = 0 /\ inputBuffer = <<>>
  /\ \A k \in PlayerIds : score[k] = Num(0)
  /\ targetScore <= 0 /\ decayFirings >= TARGET_SCORE

\* C17: only a handled contact changes a peg's owner or a score: the drain
\* of the input buffer, a firing of the decay timer, a connection, a ping
\* and a frame request leave every peg's owner and every score as they are;
\* the peg list keeps its length, and the peg at index i has id i.
C17_OnlyCollisionsWrite ==
  /\ [][(pegs' # pegs \/ score' # score)
        => (pc = "collide" /\ pc' = "collide" /\ handled' # handled)]_vars
  /\ [][(\/ pc = "loop" /\ pc' = "collide"
         \/ decayFirings' # decayFirings
         \/ playerId' # playerId
         \/ emitted' # emitted /\ emitted'.type \in {"pong", "serverFrame"})
        => (pegs' = pegs /\ score' = score)]_vars
  /\ [](DOMAIN pegs = 1..NumPegs /\ DOMAIN pegIds = 1..NumPegs)
  /\ [](\A i \in 1..NumPegs : pegIds[i] = i - 1)

\* C17 witness: a second connection was accepted when a peg was owned, a
\* score had been raised, the decay timer had fired and the drain had
\* spawned two chips
C17_Witness ==
  /\ emitted.type = "connectionEstablished" /\ emitted.to = 2
  /\ \E p \in 1..NumPegs : pegs[p] # NULL
  /\ \E k \in PlayerIds : score[k] = Num(1)
  /\ decayFirings >= 1 /\ nextBody = 2 /\ despawned = {}
  /\ \E c \in world : c.body = 2 /\ frame >= 2

\* C18: in every broadcast snapshot the winner field is true if and only if
\* some score of that snapshot is a number greater than or equal to the
\* targetScore of that snapshot.
C18_SnapshotWinner ==
  emitted.type = "snapshot"
  => (emitted.winner
        <=> \E k \in DOMAIN emitted.score :
              /\ ~emitted.score[k].nan
              /\ emitted.score[k].val >= emitted.targetScore)

\* C18 witness: a snapshot of a tick after the win, the target having
\* decayed below the score that won
C18_Witness ==
  /\ emitted.type = "snapshot" /\ emitted.winner /\ last.won
  /\ emitted.targetScore < TARGET_SCORE
  /\ \E k \in PlayerIds : emitted.score[k] = Num(TARGET_SCORE)

\* C19: between ticks, the chips registered in the chip map are exactly the
\* chips whose bodies are in the physics world, so every live body is in
\* the snapshot and every snapshot chip has a body.
C19_MapMatchesWorld ==
  pc # "collide"
  => /\ {chips[k] : k \in DOMAIN chips} = world
     /\ emitted.type = "snapshot" => emitted.chips = world

\* number of pegs owned by k
PegsOwned(pg, k) == Cardinality({p \in DOMAIN pg : pg[p] = k})

\* C20: every player's score is a number >= 0 in every reachable state; a
\* player's score goes down only by 1, and only in the handling of a contact
\* in which a chip of another owner takes over a peg that player owns; while
\* no winner is declared the score of player 1, 2 or 3 is the number of pegs
\* the player owns.
C20_ScoresNonNegative ==
  /\ [](\A k \in PlayerIds : ~score[k].nan /\ score[k].val >= 0)
  /\ [](~winner
          => \A k \in PlayerIds \ {0} : score[k].val = PegsOwned(pegs, k))
  /\ [][\A k \in PlayerIds :
          score'[k].val < score[k].val
          => /\ score'[k].val = score[k].val - 1
             /\ \E pair \in handled' \ handled :
                  /\ pair.label = "peg" /\ pegs[pair.peg] = k
                  /\ pair.chip.ownerId # k]_vars

\* C20 witness: player 1 has lost its only peg to another owner's chip and
\* is back at 0
C20_Witness ==
  /\ last.label = "peg" /\ last.former = 1 /\ last.chipOwner # 1
  /\ ~last.won /\ score[1] = Num(0)

====
